---- MODULE Spec2Model ----
(***************************************************************************)
(* run_analysis of ppnet/alignment_analysis.py as a state machine.         *)
(*                                                                         *)
(* One run is a straight line of steps; pc names the step about to run and *)
(* the other variables are the arguments, the things the run reads (the    *)
(* checkpoint, bb.npy, the dataset folder, the forward pass of the test    *)
(* image), the locals of run_analysis, the output tree and the log.        *)
(*                                                                         *)
(* The inputs are well-formed files: the checkpoint loads, bb.npy and the   *)
(* image exist, the image's class is a folder of the dataset.  The output  *)
(* root is empty when the run starts.                                      *)
(*                                                                         *)
(* Prototype and class indices are 0-based as in the source.  Sequences    *)
(* that stand for Python lists are 1-based, so Python's seq[-i] is         *)
(* seq[Len(seq) + 1 - i].                                                  *)
(***************************************************************************)
EXTENDS Integers, Sequences, FiniteSets, TLC

\* ------------------------------------------------------------------ bounds
MaxLen == 5        \* longest checkpoint file name, in characters
MaxProto == 2      \* largest num_prototypes
MaxClasses == 2    \* number of classes of the model and of the dataset
MaxTop == 2        \* largest --top_prototypes / --top_classes
MaxDist == 2       \* largest distance the forward pass returns
MaxChan == 2       \* largest prototype_shape[1]

VARIABLES
    args,                  \* the Namespace run_analysis is called with
    checkpoint_file,       \* the model torch.load(args.model) gives
    img_dir_exists,        \* whether <model dir>/../img exists
    bb_file,               \* the records of img/epoch-<N>/bb.npy
    dataset_dir,           \* the image folder two levels above the test image
    forward_pass,          \* what the network returns for the test image
    pc,                    \* the step about to run; "failed" after an unhandled exception
    error,                 \* the unhandled exception: [kind, line]
    dirs,                  \* directories made under save_analysis_path
    files,                 \* files written under save_analysis_path: path -> what was written
    log,                   \* the lines of local_analysis.log
    start_epoch_number,
    ppnet,
    max_dist,
    dataset,
    prototype_info,
    prototype_img_identity,
    prototype_max_connection,
    labels_test,
    logits,
    min_distances,
    distances,
    prototype_activations,
    prototype_activation_patterns,
    predicted_cls,
    correct_cls,
    array_act,
    sorted_indices_act

vars == <<args, checkpoint_file, img_dir_exists, bb_file, dataset_dir,
          forward_pass, pc, error, dirs, files, log, start_epoch_number, ppnet,
          max_dist, dataset, prototype_info, prototype_img_identity,
          prototype_max_connection, labels_test, logits, min_distances, distances,
          prototype_activations, prototype_activation_patterns, predicted_cls,
          correct_cls, array_act, sorted_indices_act>>

\* ------------------------------------------------------------ module names
\* The names bound in the module's global namespace: the imports of lines 1-14
\* and the function the module defines.
ModuleGlobals ==
    {"os", "re", "Namespace", "np", "torch", "Variable", "transforms", "datasets",
     "Image", "makedir", "create_logger", "mean", "std", "save_preprocessed_img",
     "run_analysis"}

\* ------------------------------------------------- line 25: the epoch number
Digits == {"0", "1", "2", "3", "4", "5", "6", "7", "8", "9"}

DigitValue(c) ==
    CASE c = "0" -> 0 [] c = "1" -> 1 [] c = "2" -> 2 [] c = "3" -> 3 [] c = "4" -> 4
      [] c = "5" -> 5 [] c = "6" -> 6 [] c = "7" -> 7 [] c = "8" -> 8 [] c = "9" -> 9

\* The end of the digit run that starts at position i of s (\d+ is greedy).
RECURSIVE RunEnd(_, _)
RunEnd(s, i) ==
    IF i < Len(s) /\ s[i + 1] \in Digits THEN RunEnd(s, i + 1) ELSE i

\* A plausible slip: the lazy pattern \d+? (or \d), which stops at the first digit.
ReSearchDigitsLazy(s) ==
    LET starts == {i \in 1..Len(s) : s[i] \in Digits}
    IN  IF starts = {} THEN <<>>
        ELSE LET first == CHOOSE i \in starts : \A j \in starts : i <= j
             IN  SubSeq(s, first, first)

\* re.search(r'\d+', s).group(0): the leftmost match, as long as it can be;
\* <<>> stands for None (a match of \d+ is never empty).
ReSearchDigits(s) ==
    LET starts == {i \in 1..Len(s) : s[i] \in Digits}
    IN  IF starts = {} THEN <<>>
        ELSE LET first == CHOOSE i \in starts : \A j \in starts : i <= j
             IN  SubSeq(s, first, RunEnd(s, first))

\* int(text) for a text of decimal digits.
RECURSIVE PyInt(_)
PyInt(text) ==
    IF text = <<>> THEN 0
    ELSE 10 * PyInt(SubSeq(text, 1, Len(text) - 1)) + DigitValue(text[Len(text)])

\* ------------------------------------------- lines 55-57: the alignment check
\* torch.argmax(weight, dim=0): for each prototype the first class of greatest weight.
ArgMaxDim0(weight, classes, protos) ==
    [p \in protos |->
        CHOOSE c \in classes :
            /\ \A d \in classes : weight[d][p] <= weight[c][p]
            /\ \A d \in classes : weight[d][p] = weight[c][p] => c <= d]

\* The shapes numpy can compare elementwise: equal lengths, or one of length 1.
Broadcastable(m, n) == m = n \/ m = 1 \/ n = 1

RECURSIVE SumUpTo(_, _)
SumUpTo(f, n) == IF n < 0 THEN 0 ELSE f[n] + SumUpTo(f, n - 1)

\* np.sum(connection == identity) for broadcastable shapes: connection is indexed
\* 0..n-1, identity (a column of bb.npy) is a sequence of m entries.
MatchCount(connection, n, identity) ==
    LET m == Len(identity)
        len == IF m > n THEN m ELSE n
        a(i) == IF n = 1 THEN connection[0] ELSE connection[i]
        b(i) == IF m = 1 THEN identity[1] ELSE identity[i + 1]
    IN  SumUpTo([i \in 0..(len - 1) |-> IF a(i) = b(i) THEN 1 ELSE 0], len - 1)

\* ------------------------------------------ lines 76-82: distance to activation
EpsInv == 10000

\* ppnet.distance_2_similarity.  A value is the record [kind, num, den]: the number
\* num/den in linear mode, log(num/den) in log mode; den > 0.
Dist2Sim(mode, d) ==
    IF mode = "linear"
    THEN [kind |-> "linear", num |-> 0 - d, den |-> 1]
    ELSE [kind |-> "log", num |-> (d + 1) * EpsInv, den |-> d * EpsInv + 1]

\* A plausible slip: the offset minus the similarity.
ConvertActivationFlipped(mode, sim, offset) ==
    IF mode = "linear" THEN [sim EXCEPT !.num = offset * sim.den - sim.num] ELSE sim

\* Lines 80-82, applied to one entry of the tensor.
ConvertActivation(mode, sim, offset) ==
    IF mode = "linear" THEN [sim EXCEPT !.num = sim.num + offset * sim.den] ELSE sim

\* a < b for two values of one kind (log is increasing, the denominators positive).
Less(a, b) == a.num * b.den < b.num * a.den

Min(S) == CHOOSE x \in S : \A y \in S : x <= y

\* The model's spatial pooling: the least distance over the positions of the map.
MinPool(map) == Min({map[c] : c \in DOMAIN map})

\* ----------------------------------------------------- line 86: the prediction
\* torch.argmax over the logits of the one image: the first index of the maximum.
ArgMaxFirst(v) ==
    CHOOSE c \in DOMAIN v :
        /\ \A d \in DOMAIN v : v[d] <= v[c]
        /\ \A d \in DOMAIN v : v[d] = v[c] => c <= d

\* --------------------------------------------------------- line 96: torch.sort
\* torch.sort without stable=True: ascending, equal values in any order.
AscendingOrders(act) ==
    LET n == Cardinality(DOMAIN act)
    IN  {s \in [1..n -> DOMAIN act] :
            /\ \A i, j \in 1..n : i # j => s[i] # s[j]
            /\ \A i \in 1..(n - 1) : ~Less(act[s[i + 1]], act[s[i]])}

\* ------------------------------------------------------------ the output tree
\* A place under save_analysis_path: pass is "" for the directory itself,
\* "most_activated_prototypes" or "class_prototypes"; cls and rank are 0 when unused.
Dir(pass, cls, rank) == [pass |-> pass, cls |-> cls, rank |-> rank]
Root == Dir("", 0, 0)
File(d, name) == [dir |-> d, name |-> name]

\* What a written file holds: how often it was written and, for an info.txt, the
\* prototype index, the prototype class, the 'prototype connection' line (-1 when
\* the line is absent) and the class whose last-layer weight is reported.
NoInfo == [index |-> -1, class |-> -1, connection |-> -1, weight_class |-> -1]
Written(info) == [writes |-> 1, info |-> info]

Line(msg, val) == [msg |-> msg, val |-> val]

\* ------------------------------------------------------------------ inputs
Classes == 0..(MaxClasses - 1)
Protos(n) == 0..(n - 1)
GridCells == {1, 2}
NameChars == {"0", "1", "8", "_", "p"}

AllNames == UNION {[1..n -> NameChars] : n \in 1..MaxLen}
SampleNames == {<<"1", "0", "_", "1", "8">>, <<"p">>}

\* The last layer of a model whose prototypes connect to their own class only.
OwnClassWeight(identity, n) ==
    [c \in Classes |-> [p \in Protos(n) |-> IF identity[p] = c THEN 1 ELSE 0]]

BlockIdentity(n) == [p \in Protos(n) |-> p % MaxClasses]

\* A record of bb.npy: (image id, height start, height end, width start, width end, class).
BBRecord(i, c) == <<i, 0, 1, 0, 1, c>>

Checkpoints(family) ==
    {[num_prototypes |-> n,
      last_layer_weight |-> w,
      prototype_class_identity |-> BlockIdentity(n),
      prototype_activation_function |-> mode,
      prototype_shape |-> <<n, ch, 1, 1>>] :
        n \in (IF family = "epoch" THEN {MaxProto} ELSE 1..MaxProto),
        ch \in (IF family = "act" THEN 1..MaxChan ELSE {MaxChan}),
        mode \in (IF family = "act" THEN {"log", "linear"} ELSE {"log"}),
        w \in (IF family = "run" THEN [Classes -> [0..(MaxProto - 1) -> 0..1]]
                                 ELSE {OwnClassWeight(BlockIdentity(MaxProto), MaxProto)})}

WeightOf(ckpt) ==
    [c \in Classes |-> [p \in Protos(ckpt.num_prototypes) |-> ckpt.last_layer_weight[c][p]]]

BBFiles(family, n) ==
    IF family = "run"
    THEN UNION {{[i \in 1..m |-> BBRecord(i - 1, id[i])] : id \in [1..m -> Classes]} :
                    m \in 1..(MaxProto + 1)}
    ELSE {[i \in 1..n |-> BBRecord(i - 1, BlockIdentity(n)[i - 1])]}

ForwardPasses(family, n) ==
    {[logits |-> l, distances |-> d] :
        l \in (IF family = "run" THEN [Classes -> 0..1] ELSE {[c \in Classes |-> c]}),
        d \in (IF family = "act" THEN [Protos(n) -> [GridCells -> 0..MaxDist]]
                                 ELSE {[p \in Protos(n) |-> [c \in GridCells |-> p]]})}

\* The forward pass and bb.npy of the families that do not vary them.
PlainForward(n) ==
    [logits |-> [c \in Classes |-> c],
     distances |-> [p \in Protos(n) |-> [c \in GridCells |-> p]]]
PlainBB(n) == [i \in 1..n |-> BBRecord(i - 1, BlockIdentity(n)[i - 1])]

\* A run that stops at line 24 or 25 never reads the two counts: a path too short
\* and a name without digits are paired with one value of each only.
Arguments(family) ==
    {a \in
        {[model |-> [segments |-> s, model_name |-> name],
          top_prototypes |-> n,
          top_classes |-> k] :
            s \in (IF family = "act" THEN {4} ELSE {3, 4}),
            name \in (IF family = "epoch" THEN AllNames ELSE SampleNames),
            n \in (IF family = "run" THEN 0..MaxTop ELSE {1}),
            k \in (IF family = "run" THEN 0..MaxTop ELSE {1})} :
        \/ family # "run"
        \/ a.model.segments >= 4 /\ ReSearchDigits(a.model.model_name) # <<>>
        \/ a.top_prototypes = 1 /\ a.top_classes = 1}

NoError == [kind |-> "", line |-> 0]

InitFor(family) ==
    /\ args \in Arguments(family)
    /\ \E ck \in Checkpoints(family) :
        checkpoint_file = [ck EXCEPT !.last_layer_weight = WeightOf(ck)]
    /\ img_dir_exists \in (IF family = "run" THEN BOOLEAN ELSE {TRUE})
    /\ bb_file \in BBFiles(family, checkpoint_file.num_prototypes)
    /\ dataset_dir \in {[classes |-> MaxClasses, img_class_idx |-> truth] :
                            truth \in (IF family = "run" THEN Classes ELSE {0})}
    /\ forward_pass \in ForwardPasses(family, checkpoint_file.num_prototypes)
    \* A run that stops at line 49 reads neither bb.npy nor the image: the missing
    \* directory is paired with one bb.npy and one forward pass only.
    /\ \/ img_dir_exists
       \/ /\ bb_file = PlainBB(checkpoint_file.num_prototypes)
          /\ forward_pass = PlainForward(checkpoint_file.num_prototypes)
          /\ dataset_dir.img_class_idx = 0
    /\ pc = "parse"
    /\ error = NoError
    /\ dirs = {}
    /\ files = <<>>
    /\ log = <<>>
    /\ start_epoch_number = 0
    /\ ppnet = [num_prototypes |-> 0]
    /\ max_dist = 0
    /\ dataset = [classes |-> 0, img_class_idx |-> 0]
    /\ prototype_info = <<>>
    /\ prototype_img_identity = <<>>
    /\ prototype_max_connection = <<>>
    /\ labels_test = 0
    /\ logits = <<>>
    /\ min_distances = <<>>
    /\ distances = <<>>
    /\ prototype_activations = <<>>
    /\ prototype_activation_patterns = <<>>
    /\ predicted_cls = 0
    /\ correct_cls = 0
    /\ array_act = <<>>
    /\ sorted_indices_act = <<>>

Init == InitFor("run")
InitEpoch == InitFor("epoch")
InitAct == InitFor("act")

\* ------------------------------------------------------------------- steps
\* An unhandled exception ends the run: nothing written is removed, the log stays open.
Raise(kind, line) ==
    /\ pc' = "failed"
    /\ error' = [kind |-> kind, line |-> line]

\* Lines 17-25.  os.path.abspath gives the image path at least two segments, so
\* line 21 always unpacks; line 24 needs four segments, line 25 a digit.
ParsePaths ==
    /\ pc = "parse"
    /\ LET match == ReSearchDigits(args.model.model_name)
       IN  IF args.model.segments < 4
           THEN Raise("ValueError", 24) /\ UNCHANGED start_epoch_number
           ELSE IF match = <<>>
           THEN Raise("AttributeError", 25) /\ UNCHANGED start_epoch_number
           ELSE /\ start_epoch_number' = PyInt(match)
                /\ pc' = "mkout"
                /\ UNCHANGED error
    /\ UNCHANGED <<args, checkpoint_file, img_dir_exists, bb_file, dataset_dir,
                   forward_pass, dirs, files, log, ppnet, max_dist, dataset,
                   prototype_info, prototype_img_identity, prototype_max_connection,
                   labels_test, logits, min_distances, distances, prototype_activations,
                   prototype_activation_patterns, predicted_cls, correct_cls, array_act,
                   sorted_indices_act>>

\* Lines 27-34.
MakeOutDir ==
    /\ pc = "mkout"
    /\ dirs' = dirs \cup {Root}
    /\ log' = log \o <<Line("Load model from", -1),
                       Line("Model epoch", start_epoch_number),
                       Line("Model base architecture", -1),
                       Line("Experiment run", -1)>>
    /\ pc' = "load"
    /\ UNCHANGED <<args, checkpoint_file, img_dir_exists, bb_file, dataset_dir,
                   forward_pass, error, files, start_epoch_number, ppnet, max_dist, dataset,
                   prototype_info, prototype_img_identity, prototype_max_connection,
                   labels_test, logits, min_distances, distances, prototype_activations,
                   prototype_activation_patterns, predicted_cls, correct_cls, array_act,
                   sorted_indices_act>>

\* Lines 36-44.
LoadModel ==
    /\ pc = "load"
    /\ ppnet' = checkpoint_file
    /\ max_dist' = checkpoint_file.prototype_shape[2] * checkpoint_file.prototype_shape[3]
                       * checkpoint_file.prototype_shape[4]
    /\ dataset' = dataset_dir
    /\ pc' = "sanity"
    /\ UNCHANGED <<args, checkpoint_file, img_dir_exists, bb_file, dataset_dir,
                   forward_pass, error, dirs, files, log, start_epoch_number,
                   prototype_info, prototype_img_identity, prototype_max_connection,
                   labels_test, logits, min_distances, distances, prototype_activations,
                   prototype_activation_patterns, predicted_cls, correct_cls, array_act,
                   sorted_indices_act>>

\* Lines 48-52.
LoadPrototypeInfo ==
    /\ pc = "sanity"
    /\ IF ~img_dir_exists
       THEN /\ Raise("AssertionError", 49)
            /\ UNCHANGED <<prototype_info, prototype_img_identity, log>>
       ELSE /\ prototype_info' = bb_file
            /\ prototype_img_identity' = [i \in 1..Len(bb_file) |-> bb_file[i][6]]
            /\ log' = Append(log, Line("Prototypes are chosen from",
                                       Cardinality({bb_file[i][6] : i \in 1..Len(bb_file)})))
            /\ pc' = "align"
            /\ UNCHANGED error
    /\ UNCHANGED <<args, checkpoint_file, img_dir_exists, bb_file, dataset_dir,
                   forward_pass, dirs, files, start_epoch_number, ppnet, max_dist, dataset,
                   prototype_max_connection, labels_test, logits, min_distances, distances,
                   prototype_activations, prototype_activation_patterns, predicted_cls,
                   correct_cls, array_act, sorted_indices_act>>

\* Lines 55-60.  When the two arrays cannot be broadcast, == either raises
\* (numpy 1.25 and later) or gives the scalar False (earlier), whose sum is 0.
AlignmentCheck ==
    /\ pc = "align"
    /\ LET n == ppnet.num_prototypes
           connection == ArgMaxDim0(ppnet.last_layer_weight, Classes, Protos(n))
           fits == Broadcastable(Len(prototype_img_identity), n)
       IN  /\ prototype_max_connection' = connection
           /\ \E outcome \in (IF fits THEN {"compared"} ELSE {"raises", "false"}) :
                IF outcome = "raises"
                THEN Raise("ValueError", 57) /\ UNCHANGED log
                ELSE LET count == IF fits
                                  THEN MatchCount(connection, n, prototype_img_identity)
                                  ELSE 0
                     IN  /\ log' = Append(log,
                                IF count = n
                                THEN Line("All prototypes connect strongly to their respective classes", -1)
                                ELSE Line("WARNING: Not all prototypes connect most strongly to their respective classes", -1))
                         /\ pc' = "forward"
                         /\ UNCHANGED error
    /\ UNCHANGED <<args, checkpoint_file, img_dir_exists, bb_file, dataset_dir,
                   forward_pass, dirs, files, start_epoch_number, ppnet, max_dist, dataset,
                   prototype_info, prototype_img_identity, labels_test, logits,
                   min_distances, distances, prototype_activations,
                   prototype_activation_patterns, predicted_cls, correct_cls, array_act,
                   sorted_indices_act>>

\* Lines 63-82.
Forward ==
    /\ pc = "forward"
    /\ LET mode == ppnet.prototype_activation_function
           protos == Protos(ppnet.num_prototypes)
           dist == forward_pass.distances
           mind == [p \in protos |-> MinPool(dist[p])]
       IN  /\ labels_test' = dataset.img_class_idx
           /\ logits' = forward_pass.logits
           /\ min_distances' = mind
           /\ distances' = dist
           /\ prototype_activations' =
                [p \in protos |-> ConvertActivation(mode, Dist2Sim(mode, mind[p]), max_dist)]
           /\ prototype_activation_patterns' =
                [p \in protos |-> [c \in GridCells |->
                    ConvertActivation(mode, Dist2Sim(mode, dist[p][c]), max_dist)]]
    /\ pc' = "tables"
    /\ UNCHANGED <<args, checkpoint_file, img_dir_exists, bb_file, dataset_dir,
                   forward_pass, error, dirs, files, log, start_epoch_number, ppnet, max_dist,
                   dataset, prototype_info, prototype_img_identity,
                   prototype_max_connection, predicted_cls, correct_cls, array_act,
                   sorted_indices_act>>

\* Lines 84-93.
ReportPrediction ==
    /\ pc = "tables"
    /\ predicted_cls' = ArgMaxFirst(logits)
    /\ correct_cls' = labels_test
    /\ log' = log \o <<Line("Predicted class", ArgMaxFirst(logits)),
                       Line("Correct class", labels_test)>>
    /\ files' = (File(Root, "original_img.png") :> Written(NoInfo))
    /\ pc' = "sort"
    /\ UNCHANGED <<args, checkpoint_file, img_dir_exists, bb_file, dataset_dir,
                   forward_pass, error, dirs, start_epoch_number, ppnet, max_dist, dataset,
                   prototype_info, prototype_img_identity, prototype_max_connection,
                   labels_test, logits, min_distances, distances, prototype_activations,
                   prototype_activation_patterns, array_act, sorted_indices_act>>

\* Line 96.
SortActivations ==
    /\ pc = "sort"
    /\ \E order \in AscendingOrders(prototype_activations) :
        /\ sorted_indices_act' = order
        /\ array_act' = [i \in DOMAIN order |-> prototype_activations[order[i]]]
    /\ pc' = "global"
    /\ UNCHANGED <<args, checkpoint_file, img_dir_exists, bb_file, dataset_dir,
                   forward_pass, error, dirs, files, log, start_epoch_number, ppnet, max_dist,
                   dataset, prototype_info, prototype_img_identity,
                   prototype_max_connection, labels_test, logits, min_distances, distances,
                   prototype_activations, prototype_activation_patterns, predicted_cls,
                   correct_cls>>

\* Line 97.  The loop header calls tqdm, a name the module never binds (nor does it
\* bind cv2, plt, save_prototype, save_prototype_original_img_with_bbox,
\* save_prototype_self_activation, find_high_activation_crop, imsave_with_bbox): the
\* lookup raises NameError before args.top_prototypes is read, and lines 98-213
\* never run.
MostActivatedPrototypes ==
    /\ pc = "global"
    /\ "tqdm" \notin ModuleGlobals
    /\ Raise("NameError", 97)
    /\ UNCHANGED <<args, checkpoint_file, img_dir_exists, bb_file, dataset_dir,
                   forward_pass, dirs, files, log, start_epoch_number, ppnet, max_dist,
                   dataset, prototype_info, prototype_img_identity,
                   prototype_max_connection, labels_test, logits, min_distances, distances,
                   prototype_activations, prototype_activation_patterns, predicted_cls,
                   correct_cls, array_act, sorted_indices_act>>

Next ==
    \/ ParsePaths
    \/ MakeOutDir
    \/ LoadModel
    \/ LoadPrototypeInfo
    \/ AlignmentCheck
    \/ Forward
    \/ ReportPrediction
    \/ SortActivations
    \/ MostActivatedPrototypes

Spec == Init /\ [][Next]_vars
SpecEpoch == InitEpoch /\ [][Next]_vars
SpecAct == InitAct /\ [][Next]_vars

\* ============================================================ the claims
\* What the claims speak of, read off the output tree and the log.
Ended == pc \in {"failed", "done"}

GlobalDir(i) == Dir("most_activated_prototypes", 0, i)
ClassDir(i) == Dir("class_prototypes", i, 0)
ClassProtoDir(i, j) == Dir("class_prototypes", i, j)

HasFile(d, name) == File(d, name) \in DOMAIN files
InfoOf(d) == files[File(d, "info.txt")].info
Logged(msg) == Cardinality({i \in 1..Len(log) : log[i].msg = msg})

GlobalArtifacts ==
    {"prototype_patch.png", "prototype_bbox.png", "prototype_activation.png", "info.txt",
     "target_patch.png", "target_bbox.png", "target_activations.png"}
ClassArtifacts ==
    {"prototype_patch.png", "prototype_bbox.png", "prototype_activation.png", "info.txt",
     "target_patch.png", "target_bbox.png", "target_activation.png"}

\* The classes in the order torch.topk may give them: by logit, descending.
TopClassOrders ==
    {s \in [1..MaxClasses -> Classes] :
        /\ \A i, j \in 1..MaxClasses : i # j => s[i] # s[j]
        /\ \A i \in 1..(MaxClasses - 1) : logits[s[i]] >= logits[s[i + 1]]}

ClassSubset(c) ==
    {p \in Protos(ppnet.num_prototypes) : ppnet.prototype_class_identity[p] = c}

\* Everything line 146 and the passes need of the arguments.
PassArgumentsFit ==
    /\ args.top_prototypes <= ppnet.num_prototypes
    /\ args.top_classes < dataset.classes
    /\ args.top_classes <= MaxClasses

\* ---------------------------------------------------------------------- C1
\* C1: the global top-N pass selects exactly N distinct prototype indices, each in
\* [0, num_prototypes), in descending order of activation, rank i being the i-th
\* element from the end of the ascending sort: once the run is past the pass, each
\* of the ranks 1..N has its info.txt, naming sorted_indices_act[-i].
C1_TopNSelected ==
    (pc = "failed" /\ error.line >= 97) =>
        LET n == ppnet.num_prototypes
            N == args.top_prototypes
        IN  /\ \A i \in 1..N :
                /\ HasFile(GlobalDir(i), "info.txt")
                /\ InfoOf(GlobalDir(i)).index \in Protos(n)
                /\ InfoOf(GlobalDir(i)).index = sorted_indices_act[n + 1 - i]
            /\ \A i, j \in 1..N :
                i < j =>
                    /\ InfoOf(GlobalDir(i)).index # InfoOf(GlobalDir(j)).index
                    /\ ~Less(prototype_activations[InfoOf(GlobalDir(i)).index],
                             prototype_activations[InfoOf(GlobalDir(j)).index])

\* ---------------------------------------------------------------------- C2
\* C2: for each class c among the top-K predicted classes the per-class pass renders
\* exactly the prototypes assigned to c, each once, in descending order of
\* activation, under the ranks 1..|subset|, the ranks starting at 1 for each class.
C2_ClassSubsetRendered ==
    (pc = "failed" /\ error.line >= 97 /\ PassArgumentsFit) =>
        \E top \in TopClassOrders :
            \A i \in 1..args.top_classes :
                LET subset == ClassSubset(top[i])
                    size == Cardinality(subset)
                IN  /\ ClassDir(i) \in dirs
                    /\ \A j \in 1..size : HasFile(ClassProtoDir(i, j), "info.txt")
                    /\ {InfoOf(ClassProtoDir(i, j)).index : j \in 1..size} = subset
                    /\ ClassProtoDir(i, size + 1) \notin dirs
                    /\ \A j \in 1..(size - 1) :
                        ~Less(prototype_activations[InfoOf(ClassProtoDir(i, j)).index],
                              prototype_activations[InfoOf(ClassProtoDir(i, j + 1)).index])

\* ---------------------------------------------------------------------- C3
PastAlignmentCheck ==
    pc \in {"forward", "tables", "sort", "global"} \/ (pc = "failed" /\ error.line > 60)

AllAligned == "All prototypes connect strongly to their respective classes"
NotAligned == "WARNING: Not all prototypes connect most strongly to their respective classes"

\* C3: once the alignment check has run, the 'All prototypes connect strongly'
\* message is in the log if the assigned classes and the arg-max classes are the
\* same array, the WARNING is in the log if any element of the one differs from
\* the same element of the other, and exactly one of the two messages is logged.
C3_AlignmentMessage ==
    PastAlignmentCheck =>
        LET m == Len(prototype_img_identity)
            n == ppnet.num_prototypes
            both == {i \in 0..(n - 1) : i < m}
        IN  /\ (m = n /\ \A i \in both :
                    prototype_img_identity[i + 1] = prototype_max_connection[i])
                => Logged(AllAligned) = 1
            /\ (\E i \in both :
                    prototype_img_identity[i + 1] # prototype_max_connection[i])
                => Logged(NotAligned) = 1
            /\ Logged(AllAligned) + Logged(NotAligned) = 1

\* ---------------------------------------------------------------------- C4
PastMetadataLoad ==
    pc \in {"align", "forward", "tables", "sort", "global"}
        \/ (pc = "failed" /\ error.line > 52)

\* C4: a bb.npy whose number of records differs from num_prototypes stops the run
\* with an assertion before any inference: in every state past the metadata load
\* the two counts are equal.
C4_PrototypeCountChecked ==
    PastMetadataLoad => Len(prototype_info) = ppnet.num_prototypes

\* ---------------------------------------------------------------------- C5
RunPreconditions ==
    /\ args.model.segments >= 4
    /\ \E i \in 1..Len(args.model.model_name) : args.model.model_name[i] \in Digits
    /\ img_dir_exists
    /\ Len(bb_file) = checkpoint_file.num_prototypes
    /\ args.top_prototypes <= checkpoint_file.num_prototypes
    /\ args.top_classes < dataset_dir.classes
    /\ args.top_classes <= MaxClasses

\* C5: a run whose preconditions hold is never aborted, aligned or not, right or
\* wrong: it ends "done", past both passes, with exactly one verdict in the log,
\* 'Prediction is correct.' exactly when the predicted class is the ground-truth
\* class.
C5_VerdictLogged ==
    (Ended /\ RunPreconditions) =>
        /\ pc = "done"
        /\ Logged("Prediction is correct.") + Logged("Prediction is wrong.") = 1
        /\ Logged("Prediction is correct.") = 1 <=> predicted_cls = correct_cls

\* ---------------------------------------------------------------------- C6
\* The positions where a maximal run of digits starts.
DigitRunStarts(s) ==
    {i \in 1..Len(s) : s[i] \in Digits /\ (i = 1 \/ s[i - 1] \notin Digits)}

\* The value of the digits s[i..j] read as a decimal numeral, place by place.
RECURSIVE PlaceValue(_, _, _)
PlaceValue(s, i, j) ==
    IF i > j THEN 0 ELSE DigitValue(s[i]) * 10 ^ (j - i) + PlaceValue(s, i + 1, j)

FirstRunValue(s) ==
    LET i == Min(DigitRunStarts(s))
        j == CHOOSE k \in i..Len(s) :
                /\ \A q \in i..k : s[q] \in Digits
                /\ (k = Len(s) \/ s[k + 1] \notin Digits)
    IN  PlaceValue(s, i, j)

\* C6: the epoch number is the first digit run of the checkpoint file name read as
\* a base-10 integer (the only run, when there is one); a name with no digit run
\* fails the run before the output directory is made.
C6_EpochIsFirstDigitRun ==
    LET name == args.model.model_name
    IN  pc # "parse" =>
            /\ DigitRunStarts(name) = {} =>
                    /\ pc = "failed"
                    /\ error.line <= 25
                    /\ dirs = {}
                    /\ DOMAIN files = {}
                    /\ log = <<>>
            /\ (DigitRunStarts(name) # {} /\ args.model.segments >= 4) =>
                    /\ ~(pc = "failed" /\ error.line <= 25)
                    /\ start_epoch_number = FirstRunValue(name)

\* A name of two digit runs, 10_18, has given epoch 10.
C6_Witness ==
    /\ pc = "mkout"
    /\ args.model.model_name = <<"1", "0", "_", "1", "8">>
    /\ start_epoch_number = 10

\* ---------------------------------------------------------------------- C7
PastForward ==
    pc \in {"tables", "sort", "global"} \/ (pc = "failed" /\ error.line >= 97)

\* C7: the activation falls as the distance grows, in log mode and in linear mode,
\* for the per-prototype activations and for the cells of the activation patterns;
\* both carry the same offset, max_dist in linear mode and none otherwise, so that
\* equal distances give equal values and the order of the prototypes is that of
\* their similarities.
C7_ActivationDecreasesWithDistance ==
    PastForward =>
        LET protos == Protos(ppnet.num_prototypes)
            mode == ppnet.prototype_activation_function
            offset == IF mode = "linear" THEN max_dist ELSE 0
        IN  /\ \A p, q \in protos :
                min_distances[p] < min_distances[q]
                    => Less(prototype_activations[q], prototype_activations[p])
            /\ \A p, q \in protos : \A c, e \in GridCells :
                distances[p][c] < distances[q][e]
                    => Less(prototype_activation_patterns[q][e],
                            prototype_activation_patterns[p][c])
            /\ \A p \in protos :
                prototype_activations[p].num
                    = Dist2Sim(mode, min_distances[p]).num
                        + offset * prototype_activations[p].den
            /\ \A p \in protos : \A c \in GridCells :
                /\ prototype_activation_patterns[p][c].num
                    = Dist2Sim(mode, distances[p][c]).num
                        + offset * prototype_activation_patterns[p][c].den
                /\ distances[p][c] = min_distances[p]
                    => prototype_activation_patterns[p][c] = prototype_activations[p]

\* Linear mode, an offset of 2, and two prototypes at different distances.
C7_Witness ==
    /\ pc = "tables"
    /\ ppnet.prototype_activation_function = "linear"
    /\ max_dist = 2
    /\ \E p, q \in Protos(ppnet.num_prototypes) :
        /\ min_distances[p] < min_distances[q]
        /\ Less(prototype_activations[q], prototype_activations[p])

\* ---------------------------------------------------------------------- C8
\* The info.txt under d has the 'prototype connection' line exactly when the
\* prototype's arg-max class is not its class in bb.npy, and reports the weight of
\* class c.
InfoAgrees(d, c) ==
    /\ HasFile(d, "info.txt")
    /\ LET info == InfoOf(d)
       IN  /\ info.index \in Protos(ppnet.num_prototypes)
           /\ info.connection # -1
                <=> prototype_max_connection[info.index]
                        # prototype_img_identity[info.index + 1]
           /\ info.weight_class = c

C9_AbortAfterGlobalPass ==
    (/\ pc = "failed"
     /\ error.line >= 97
     /\ args.top_prototypes <= ppnet.num_prototypes
     /\ args.top_classes >= dataset.classes) =>
        /\ error = [kind |-> "AssertionError", line |-> 146]
        /\ \A i \in 1..args.top_prototypes :
            /\ GlobalDir(i) \in dirs
            /\ \A name \in GlobalArtifacts : HasFile(GlobalDir(i), name)
        /\ \A d \in dirs : d.pass # "class_prototypes"
        /\ Logged("Prediction is correct.") + Logged("Prediction is wrong.") = 0
        /\ Root \in dirs
        /\ HasFile(Root, "original_img.png")

====
